---------------------------- MODULE Spec2Model ----------------------------
(***************************************************************************)
(* A model of two headers of Kimera-VIO:                                   *)
(*                                                                         *)
(*   include/kimera-vio/frontend/Tracker.h                                 *)
(*       OpticalFlowPredictor, SillyOpticalFlowPredictor,                  *)
(*       RotationalOpticalFlowPredictor, OpticalFlowPredictorFactory,      *)
(*       Tracker::landmark_count_                                          *)
(*   src/loopclosure/LoopClosureDetector-definitions.h                     *)
(*       LCDStatus, MatchIsland, LoopResult                                *)
(*                                                                         *)
(* Single precision arithmetic (cv::Matx33f, cv::Vec3f, cv::Point2f) is    *)
(* modelled bit-exactly for normal numbers: a float is <<s, m, e>> with    *)
(* value (-1)^s * m * 2^e, m = 0 or 2^23 <= m < 2^24, and every operation  *)
(* rounds to nearest, ties to even.                                        *)
(***************************************************************************)
EXTENDS Integers, Sequences, FiniteSets, TLC

(***************************************************************************)
(* IEEE-754 binary32, the `float` of cv::Matx33f / cv::Vec3f / cv::Point2f.*)
(* The inputs of the model keep every exponent far inside the binary32     *)
(* range, so infinities, NaNs and subnormals never arise; +0 and -0        *)
(* compare equal in C++ and are both written Zero.                         *)
(***************************************************************************)
FloatMantBits == 24

MantLo == 2 ^ (FloatMantBits - 1)
MantHi == 2 ^ FloatMantBits
Limb   == 2 ^ (FloatMantBits \div 2)
Guard  == 2 ^ (FloatMantBits - 3)

Zero == <<0, 0, 0>>

RECURSIVE BitLen(_)
BitLen(n) == IF n = 0 THEN 0 ELSE 1 + BitLen(n \div 2)

\* The float nearest to (-1)^s * N * 2^E (ties to even).  When the exact
\* value has bits below N, the caller has or-ed them into N's lowest bit
\* and N has at least two bits more than the mantissa.
RoundCarry(s, m, E) == IF m = MantHi THEN <<s, MantLo, E + 1>> ELSE <<s, m, E>>

RoundNearestEven(s, q, r, half, E) ==
  IF r > half \/ (r = half /\ q % 2 = 1) THEN RoundCarry(s, q + 1, E) ELSE <<s, q, E>>

RoundShift(s, N, E, sh) ==
  RoundNearestEven(s, N \div (2 ^ sh), N % (2 ^ sh), 2 ^ (sh - 1), E + sh)

RoundLen(s, N, E, L) ==
  IF L <= FloatMantBits
  THEN <<s, N * 2 ^ (FloatMantBits - L), E - (FloatMantBits - L)>>
  ELSE RoundShift(s, N, E, L - FloatMantBits)

RoundPack(s, N, E) == IF N = 0 THEN Zero ELSE RoundLen(s, N, E, BitLen(N))

\* (float) n for a small integer n
FromInt(n) == IF n < 0 THEN RoundPack(1, -n, 0) ELSE RoundPack(0, n, 0)

FNeg(a) == IF a[2] = 0 THEN Zero ELSE <<1 - a[1], a[2], a[3]>>

\* a * b : the 48-bit product of the mantissas, computed in 12-bit limbs
\* as hi * 2^24 + lo, then cut to 27 bits and a sticky bit
MulJam(s, hi, lo, E) ==
  RoundPack(s, (hi * 8 + lo \div Guard) * 2 + (IF lo % Guard # 0 THEN 1 ELSE 0), E)

MulLow(s, hi, low, E) == MulJam(s, hi + low \div MantHi, low % MantHi, E)

MulMid(s, hh, mid, ll, E) == MulLow(s, hh + mid \div Limb, (mid % Limb) * Limb + ll, E)

MulLimbs(s, a1, a0, b1, b0, E) == MulMid(s, a1 * b1, a1 * b0 + a0 * b1, a0 * b0, E)

FMul(a, b) ==
  IF a[2] = 0 \/ b[2] = 0 THEN Zero
  ELSE MulLimbs((a[1] + b[1]) % 2, a[2] \div Limb, a[2] % Limb,
                b[2] \div Limb, b[2] % Limb, a[3] + b[3] + FloatMantBits - 4)

\* a + b : three guard bits, the bits shifted out or-ed into the lowest
Jam(f, lost) == IF lost /\ f % 2 = 0 THEN f + 1 ELSE f

ShiftJam(v, d) ==
  IF d >= FloatMantBits + 3 THEN 1 ELSE Jam(v \div (2 ^ d), v % (2 ^ d) # 0)

\* x + y for |x| >= |y| > 0
AddOrdered(x, y) ==
  RoundPack(x[1],
            IF x[1] = y[1] THEN x[2] * 8 + ShiftJam(y[2] * 8, x[3] - y[3])
                           ELSE x[2] * 8 - ShiftJam(y[2] * 8, x[3] - y[3]),
            x[3] - 3)

FAdd(a, b) ==
  IF a[2] = 0 THEN b
  ELSE IF b[2] = 0 THEN a
  ELSE IF a[3] > b[3] \/ (a[3] = b[3] /\ a[2] >= b[2]) THEN AddOrdered(a, b)
  ELSE AddOrdered(b, a)

FSub(a, b) == FAdd(a, FNeg(b))

\* k more quotient bits of r / m (r < m), appended to acc
RECURSIVE DivBits(_, _, _, _)
DivBits(r, m, k, acc) ==
  IF k = 0 THEN <<acc, r>>
  ELSE IF 2 * r >= m THEN DivBits(2 * r - m, m, k - 1, 2 * acc + 1)
       ELSE DivBits(2 * r, m, k - 1, 2 * acc)

DivPack(s, qr, E) == RoundPack(s, qr[1] * 2 + (IF qr[2] # 0 THEN 1 ELSE 0), E)

\* a / b for b # 0
FDiv(a, b) ==
  IF a[2] = 0 THEN Zero
  ELSE DivPack((a[1] + b[1]) % 2,
               DivBits(a[2] % b[2], b[2], FloatMantBits + 2, a[2] \div b[2]),
               a[3] - b[3] - (FloatMantBits + 3))

\* a > 0.0f
FPos(a) == a[2] # 0 /\ a[1] = 0

(***************************************************************************)
(* cv::Matx33f and cv::Vec3f: a matrix is a triple of rows.  The products  *)
(* follow cv::internal::Matx_MatMulOp (s = 0; s += a(i,k) * b(k,j)), the   *)
(* inverse cv::internal::Matx_FastInvOp<float, 3, 3> (adjugate times       *)
(* 1 / determinant; the zero matrix when the determinant is 0).            *)
(***************************************************************************)
One == FromInt(1)

Dot3(a1, b1, a2, b2, a3, b3) ==
  FAdd(FAdd(FAdd(Zero, FMul(a1, b1)), FMul(a2, b2)), FMul(a3, b3))

\* entry (i, j) of a * b
MulEntry(a, b, i, j) == Dot3(a[i][1], b[1][j], a[i][2], b[2][j], a[i][3], b[3][j])

MulRow(a, b, i) == <<MulEntry(a, b, i, 1), MulEntry(a, b, i, 2), MulEntry(a, b, i, 3)>>

MatMul(a, b) == <<MulRow(a, b, 1), MulRow(a, b, 2), MulRow(a, b, 3)>>

VecEntry(a, v, i) == Dot3(a[i][1], v[1], a[i][2], v[2], a[i][3], v[3])

MatVec(a, v) == <<VecEntry(a, v, 1), VecEntry(a, v, 2), VecEntry(a, v, 3)>>

\* a(p) * a(q) - a(r) * a(s)
Minor(a, p, q, r, s) ==
  FSub(FMul(a[p[1]][p[2]], a[q[1]][q[2]]), FMul(a[r[1]][r[2]], a[s[1]][s[2]]))

determinant(a) ==
  FAdd(FSub(FMul(a[1][1], Minor(a, <<2,2>>, <<3,3>>, <<3,2>>, <<2,3>>)),
            FMul(a[1][2], Minor(a, <<2,1>>, <<3,3>>, <<3,1>>, <<2,3>>))),
       FMul(a[1][3], Minor(a, <<2,1>>, <<3,2>>, <<3,1>>, <<2,2>>)))

ZeroMatrix == << <<Zero, Zero, Zero>>, <<Zero, Zero, Zero>>, <<Zero, Zero, Zero>> >>

\* b(i,j) = (a(p) * a(q) - a(r) * a(s)) * d with d = 1 / determinant
Adjugate(a, d) ==
  << << FMul(Minor(a, <<2,2>>, <<3,3>>, <<2,3>>, <<3,2>>), d),
        FMul(Minor(a, <<1,3>>, <<3,2>>, <<1,2>>, <<3,3>>), d),
        FMul(Minor(a, <<1,2>>, <<2,3>>, <<1,3>>, <<2,2>>), d) >>,
     << FMul(Minor(a, <<2,3>>, <<3,1>>, <<2,1>>, <<3,3>>), d),
        FMul(Minor(a, <<1,1>>, <<3,3>>, <<1,3>>, <<3,1>>), d),
        FMul(Minor(a, <<1,3>>, <<2,1>>, <<1,1>>, <<2,3>>), d) >>,
     << FMul(Minor(a, <<2,1>>, <<3,2>>, <<2,2>>, <<3,1>>), d),
        FMul(Minor(a, <<1,2>>, <<3,1>>, <<1,1>>, <<3,2>>), d),
        FMul(Minor(a, <<1,1>>, <<2,2>>, <<1,2>>, <<2,1>>), d) >> >>

InvWithDet(a, det) == IF det = Zero THEN ZeroMatrix ELSE Adjugate(a, FDiv(One, det))

inv(a) == InvWithDet(a, determinant(a))

\* a matrix of small integers, converted entry by entry to float
RowOfInts(r) == <<FromInt(r[1]), FromInt(r[2]), FromInt(r[3])>>

MatOfInts(m) == <<RowOfInts(m[1]), RowOfInts(m[2]), RowOfInts(m[3])>>

IdentityMatrix == MatOfInts(<< <<1, 0, 0>>, <<0, 1, 0>>, <<0, 0, 1>> >>)


(***************************************************************************)
(* Bounds and input sets of the optical flow predictors.                   *)
(***************************************************************************)
\* longest keypoint vector handed to predictFlow as prev_kps
MaxKps == 2

\* longest content the caller's next_kps vector holds before a call
MaxHeld == 1

\* largest integer cast to OpticalFlowPredictorType
MaxTypeValue == 2

Point(x, y) == <<FromInt(x), FromInt(y)>>

\* pixel positions (cv::Point2f)
KeypointValues == {Point(0, 0), Point(1, 2), Point(3, 5)}

KeypointsUpTo(n) == UNION {[1..k -> KeypointValues] : k \in 0..n}

KeypointsCV == KeypointsUpTo(MaxKps)

HeldValues == KeypointsUpTo(MaxHeld)

\* camera intrinsics (fx, fy, cx, cy): the identity, one whose inverse is
\* exact in single precision, one whose inverse is rounded
Intrinsics(fx, fy, cx, cy) == MatOfInts(<< <<fx, 0, cx>>, <<0, fy, cy>>, <<0, 0, 1>> >>)

IntrinsicValues == {IdentityMatrix, Intrinsics(2, 2, 1, 1), Intrinsics(5, 5, 2, 3)}

\* gtsam::Rot3 values, already cast to float by gtsamMatrix3ToCvMat: the
\* identity, a quarter turn about the optical axis, and quarter turns about
\* the vertical axis in both directions
RotZ90    == MatOfInts(<< <<0, -1, 0>>, <<1, 0, 0>>, <<0, 0, 1>> >>)
RotY90    == MatOfInts(<< <<0, 0, 1>>, <<0, 1, 0>>, <<-1, 0, 0>> >>)
RotYNeg90 == MatOfInts(<< <<0, 0, -1>>, <<0, 1, 0>>, <<1, 0, 0>> >>)

RotationValues == {IdentityMatrix, RotZ90, RotY90, RotYNeg90}

\* enum class OpticalFlowPredictorType
kStatic == 0
kRotational == 1

TypeValues == 0..MaxTypeValue

(***************************************************************************)
(* The predictors.                                                         *)
(***************************************************************************)
\* SillyOpticalFlowPredictor::predictFlow: *next_kps = prev_kps; return true
SillyPredictFlowAppends(prev_kps, held) ==
  [ret |-> TRUE, next_kps |-> held \o prev_kps]

SillyPredictFlow(prev_kps, held) ==
  [ret |-> TRUE, next_kps |-> prev_kps]

\* H = K_ * R * K_inverse_
Homography(K, R, Kinv) == MatMul(MatMul(K, R), Kinv)

\* One iteration of the loop of RotationalOpticalFlowPredictor::predictFlow
ProjectAlways(kp, p2) ==
  IF p2[3] = Zero THEN kp ELSE <<FDiv(p2[1], p2[3]), FDiv(p2[2], p2[3])>>


\* the if of the loop body: perspective division, or the old corner
Project(kp, p2) ==
  IF FPos(p2[3])
  THEN <<FDiv(p2[1], p2[3]), FDiv(p2[2], p2[3])>>
  ELSE kp

PredictPointSwapsAxes(H, kp) == Project(kp, MatVec(H, <<kp[2], kp[1], One>>))

PredictPoint(H, kp) == Project(kp, MatVec(H, <<kp[1], kp[2], One>>))

\* The values of inv, Homography and PredictPoint for the inputs of the
\* model, computed once and kept as sets of <<argument, value>> pairs
InverseTable == {<<K, inv(K)>> : K \in IntrinsicValues}

InverseOf(K) == (CHOOSE p \in InverseTable : p[1] = K)[2]

HomographyTable ==
  {<<<<K, R, InverseOf(K)>>, Homography(K, R, InverseOf(K))>> :
     K \in IntrinsicValues, R \in RotationValues}

HomographyOf(K, R, Kinv) == (CHOOSE p \in HomographyTable : p[1] = <<K, R, Kinv>>)[2]

HomographyValues == {p[2] : p \in HomographyTable}

PredictPointTable ==
  {<<<<H, kp>>, PredictPoint(H, kp)>> : H \in HomographyValues, kp \in KeypointValues}

PredictPointOf(H, kp) == (CHOOSE p \in PredictPointTable : p[1] = <<H, kp>>)[2]

\* RotationalOpticalFlowPredictor::predictFlow: clear, resize to
\* prev_kps.size(), one prediction per keypoint, return true
PredictAll(H, prev_kps) ==
  [ret      |-> TRUE,
   next_kps |-> [i \in 1..Len(prev_kps) |-> PredictPointOf(H, prev_kps[i])],
   H        |-> H]

RotationalPredictFlow(K, Kinv, rotation, prev_kps, held) ==
  PredictAll(HomographyOf(K, rotation, Kinv), prev_kps)

\* OpticalFlowPredictorFactory::makeOpticalFlowPredictor: the object made,
\* or the fatal log of the default case
makeOpticalFlowPredictorDefaultsToStatic(type, K) ==
  IF type = kRotational
  THEN [fatal |-> FALSE, kind |-> "rotational", K |-> K, Kinv |-> InverseOf(K)]
  ELSE [fatal |-> FALSE, kind |-> "static", K |-> ZeroMatrix, Kinv |-> ZeroMatrix]

makeOpticalFlowPredictor(type, K) ==
  CASE type = kStatic ->
         [fatal |-> FALSE, kind |-> "static", K |-> ZeroMatrix, Kinv |-> ZeroMatrix]
    [] type = kRotational ->
         [fatal |-> FALSE, kind |-> "rotational", K |-> K, Kinv |-> InverseOf(K)]
    [] OTHER ->
         [fatal |-> TRUE, kind |-> "none", K |-> ZeroMatrix, Kinv |-> ZeroMatrix]

(***************************************************************************)
(* State of a process that owns one optical flow predictor (the Tracker's  *)
(* optical_flow_predictor_).                                               *)
(***************************************************************************)
VARIABLES
  proc,                   \* "running", "fatal" (LOG(FATAL) / CHECK), "undefined"
  predictor,              \* dynamic type behind the UniquePtr: "none", "static", "rotational"
  K_,                     \* RotationalOpticalFlowPredictor::K_
  K_inverse_,             \* RotationalOpticalFlowPredictor::K_inverse_
  inter_frame_rotation_,  \* RotationalOpticalFlowPredictor::inter_frame_rotation_
  next_kps,               \* *next_kps after the last predictFlow
  ret,                    \* bool returned by the last call on the predictor
  last_op,                \* the operation that ran last
  arg_type,               \* type argument of the last factory call
  arg_K,                  \* intrinsics argument of the last factory call
  arg_prev,               \* prev_kps argument of the last predictFlow
  requested_rotation,     \* argument of the last updateInterFrameRotation (identity before any)
  last_H,                 \* H computed by the last rotational predictFlow
  pre_predict,            \* the predictor's members when the last predictFlow began
  repeat_of               \* <<next_kps>> of the call just before, if it was a rotational
                          \* predictFlow on the same prev_kps; <<>> otherwise

flowVars == <<proc, predictor, K_, K_inverse_, inter_frame_rotation_, next_kps, ret,
              last_op, arg_type, arg_K, arg_prev, requested_rotation, last_H,
              pre_predict, repeat_of>>

VARIABLES
  island,      \* one MatchIsland object
  island_op,   \* the operation that ran last on it
  size_ret     \* value returned by the last size()

islandVars == <<island, island_op, size_ret>>

VARIABLES
  islands,    \* the three islands
  less,       \* less[i][j] is islands[i] < islands[j], once compared
  greater,    \* greater[i][j] is islands[i] > islands[j], once compared
  compared    \* whether the comparisons have run

orderVars == <<islands, less, greater, compared>>

VARIABLES
  result,         \* one LoopResult object
  loop_op,        \* the operation that ran last on it
  isLoop_ret,     \* value returned by the last isLoop()
  result_before,  \* the object when the last isLoop() began
  lcd_query,      \* query id handed to the last detection
  lcd_match,      \* match id handed to the last detection
  lcd_matches     \* number of matches the candidate of the last detection had

loopVars == <<result, loop_op, isLoop_ret, result_before, lcd_query, lcd_match,
              lcd_matches>>

VARIABLES
  tracker_proc,    \* "running" or "undefined" (signed overflow trapped)
  landmark_count_, \* Tracker::landmark_count_
  issued,          \* every landmark id handed out since construction
  tracker_op,      \* the operation that ran last
  count_before,    \* landmark_count_ when the last featureDetection began
  n_detected,      \* corners the last featureDetection detected
  reused           \* the last featureDetection handed out an id issued before

trackerVars == <<tracker_proc, landmark_count_, issued, tracker_op, count_before,
                 n_detected, reused>>

InitFlow ==
  /\ proc = "running"
  /\ predictor = "none"
  /\ K_ = ZeroMatrix
  /\ K_inverse_ = ZeroMatrix
  /\ inter_frame_rotation_ = IdentityMatrix
  /\ next_kps = <<>>
  /\ ret = FALSE
  /\ last_op = "init"
  /\ arg_type = kStatic
  /\ arg_K = ZeroMatrix
  /\ arg_prev = <<>>
  /\ requested_rotation = IdentityMatrix
  /\ last_H = ZeroMatrix
  /\ pre_predict = <<>>
  /\ repeat_of = <<>>

\* The Tracker's constructor asks the factory for its predictor.  A new
\* RotationalOpticalFlowPredictor holds a default gtsam::Rot3, the identity.
MakeOpticalFlowPredictor(type, K) ==
  /\ proc = "running"
  /\ \E made \in {makeOpticalFlowPredictor(type, K)} :
       /\ proc' = IF made.fatal THEN "fatal" ELSE "running"
       /\ predictor' = made.kind
       /\ K_' = made.K
       /\ K_inverse_' = made.Kinv
  /\ inter_frame_rotation_' = IdentityMatrix
  /\ requested_rotation' = IdentityMatrix
  /\ last_op' = "make"
  /\ arg_type' = type
  /\ arg_K' = K
  /\ next_kps' = <<>>
  /\ ret' = FALSE
  /\ arg_prev' = <<>>
  /\ last_H' = ZeroMatrix
  /\ pre_predict' = <<>>
  /\ repeat_of' = <<>>
  /\ UNCHANGED <<islandVars, orderVars, loopVars, trackerVars>>

\* updateInterFrameRotation is declared to return bool and has no return
\* statement: flowing off its end is undefined behaviour.  A build that
\* keeps the assignment returns an indeterminate bool; an optimising build
\* may treat the end of the function as unreachable and drop the assignment
\* with it, or run into whatever code follows the function.
UpdateInterFrameRotation(rotation) ==
  /\ proc = "running"
  /\ predictor = "rotational"
  /\ requested_rotation' = rotation
  /\ last_op' = "update"
  /\ next_kps' = <<>>
  /\ arg_prev' = <<>>
  /\ last_H' = ZeroMatrix
  /\ pre_predict' = <<>>
  /\ repeat_of' = <<>>
  /\ \/ /\ inter_frame_rotation_' = rotation
        /\ ret' \in BOOLEAN
        /\ UNCHANGED proc
     \/ /\ UNCHANGED inter_frame_rotation_
        /\ ret' \in BOOLEAN
        /\ UNCHANGED proc
     \/ /\ inter_frame_rotation_' = rotation
        /\ ret' = FALSE
        /\ proc' = "undefined"
  /\ UNCHANGED <<predictor, K_, K_inverse_, arg_type, arg_K>>
  /\ UNCHANGED <<islandVars, orderVars, loopVars, trackerVars>>

\* predictFlow through the OpticalFlowPredictor interface, static variant;
\* held is what the caller's vector holds before the call
PredictFlowStatic(prev_kps, held) ==
  /\ proc = "running"
  /\ predictor = "static"
  /\ \E r \in {SillyPredictFlow(prev_kps, held)} :
       /\ next_kps' = r.next_kps
       /\ ret' = r.ret
  /\ last_op' = "predictStatic"
  /\ arg_prev' = prev_kps
  /\ last_H' = ZeroMatrix
  /\ pre_predict' = <<>>
  /\ repeat_of' = <<>>
  /\ UNCHANGED <<proc, predictor, K_, K_inverse_, inter_frame_rotation_,
                 arg_type, arg_K, requested_rotation>>
  /\ UNCHANGED <<islandVars, orderVars, loopVars, trackerVars>>

\* predictFlow through the OpticalFlowPredictor interface, rotational variant
PredictFlowRotational(prev_kps, held) ==
  /\ proc = "running"
  /\ predictor = "rotational"
  /\ \E r \in {RotationalPredictFlow(K_, K_inverse_, inter_frame_rotation_,
                                       prev_kps, held)} :
       /\ next_kps' = r.next_kps
       /\ ret' = r.ret
       /\ last_H' = r.H
  /\ last_op' = "predictRotational"
  /\ arg_prev' = prev_kps
  /\ pre_predict' = <<inter_frame_rotation_, K_, K_inverse_>>
  /\ repeat_of' = IF last_op = "predictRotational" /\ arg_prev = prev_kps
                  THEN <<next_kps>> ELSE <<>>
  /\ UNCHANGED <<proc, predictor, K_, K_inverse_, inter_frame_rotation_,
                 arg_type, arg_K, requested_rotation>>
  /\ UNCHANGED <<islandVars, orderVars, loopVars, trackerVars>>

\* predictFlow with a null next_kps: CHECK_NOTNULL ends the process
PredictFlowNull ==
  /\ proc = "running"
  /\ predictor \in {"static", "rotational"}
  /\ proc' = "fatal"
  /\ last_op' = "checkFailed"
  /\ next_kps' = <<>>
  /\ arg_prev' = <<>>
  /\ last_H' = ZeroMatrix
  /\ pre_predict' = <<>>
  /\ repeat_of' = <<>>
  /\ UNCHANGED <<predictor, K_, K_inverse_, inter_frame_rotation_, ret,
                 arg_type, arg_K, requested_rotation>>
  /\ UNCHANGED <<islandVars, orderVars, loopVars, trackerVars>>

NextFlow ==
  \/ \E type \in TypeValues, K \in IntrinsicValues : MakeOpticalFlowPredictor(type, K)
  \/ \E rotation \in RotationValues : UpdateInterFrameRotation(rotation)
  \/ \E prev_kps \in KeypointsCV, held \in HeldValues : PredictFlowStatic(prev_kps, held)
  \/ \E prev_kps \in KeypointsCV, held \in HeldValues : PredictFlowRotational(prev_kps, held)
  \/ PredictFlowNull

(***************************************************************************)
(* struct MatchIsland.  FrameId is an unsigned 64-bit integer and size()   *)
(* returns size_t; the model keeps the unsigned wrap-around and narrows    *)
(* the width to FrameIdBits.  A double is <<"num", v>> or <<"nan", 0>>.    *)
(***************************************************************************)
FrameIdBits == 2

FrameIdModulus == 2 ^ FrameIdBits

FrameIdValues == 0..(FrameIdModulus - 1)

Num(v) == <<"num", v>>
NaN == <<"nan", 0>>

\* operator< and operator> of double
DoubleLess(x, y) == x[1] = "num" /\ y[1] = "num" /\ x[2] < y[2]
DoubleGreater(x, y) == x[1] = "num" /\ y[1] = "num" /\ x[2] > y[2]

\* the scores an island of the single-island machine is given
IslandScores == {Num(0), Num(1)}

\* MatchIsland(), MatchIsland(start, end), MatchIsland(start, end, score)
MatchIsland0 ==
  [start_id_ |-> 0, end_id_ |-> 0, island_score_ |-> Num(0),
   best_id_ |-> 0, best_score_ |-> Num(0)]

MatchIsland2(start, end) ==
  [start_id_ |-> start, end_id_ |-> end, island_score_ |-> Num(0),
   best_id_ |-> 0, best_score_ |-> Num(0)]

MatchIsland3(start, end, score) ==
  [start_id_ |-> start, end_id_ |-> end, island_score_ |-> score,
   best_id_ |-> 0, best_score_ |-> Num(0)]

\* MatchIsland::clear
MatchIsland_clear(isl) ==
  [start_id_ |-> 0, end_id_ |-> 0, island_score_ |-> Num(0),
   best_id_ |-> 0, best_score_ |-> Num(0)]

\* MatchIsland::size: end_id_ - start_id_ + 1 in unsigned arithmetic
MatchIsland_sizeExclusive(isl) == (isl.end_id_ - isl.start_id_) % FrameIdModulus

MatchIsland_size(isl) == (isl.end_id_ - isl.start_id_ + 1) % FrameIdModulus

\* MatchIsland::operator< and MatchIsland::operator>
MatchIsland_lessOrEqual(a, b) ==
  /\ a.island_score_[1] = "num" /\ b.island_score_[1] = "num"
  /\ a.island_score_[2] <= b.island_score_[2]

MatchIsland_less(a, b) == DoubleLess(a.island_score_, b.island_score_)

MatchIsland_greater(a, b) == DoubleGreater(a.island_score_, b.island_score_)

InitIsland ==
  /\ island = MatchIsland0
  /\ island_op = "ctor0"
  /\ size_ret = 0

Construct0 ==
  /\ island' = MatchIsland0
  /\ island_op' = "ctor0"
  /\ size_ret' = 0
  /\ UNCHANGED <<flowVars, orderVars, loopVars, trackerVars>>

Construct2(start, end) ==
  /\ island' = MatchIsland2(start, end)
  /\ island_op' = "ctor2"
  /\ size_ret' = 0
  /\ UNCHANGED <<flowVars, orderVars, loopVars, trackerVars>>

Construct3(start, end, score) ==
  /\ island' = MatchIsland3(start, end, score)
  /\ island_op' = "ctor3"
  /\ size_ret' = 0
  /\ UNCHANGED <<flowVars, orderVars, loopVars, trackerVars>>

Clear ==
  /\ island' = MatchIsland_clear(island)
  /\ island_op' = "clear"
  /\ size_ret' = 0
  /\ UNCHANGED <<flowVars, orderVars, loopVars, trackerVars>>

\* the members are public: any of them may be assigned
AssignId(field, v) ==
  /\ island' = [island EXCEPT ![field] = v]
  /\ island_op' = "assign"
  /\ size_ret' = 0
  /\ UNCHANGED <<flowVars, orderVars, loopVars, trackerVars>>

AssignScore(field, v) ==
  /\ island' = [island EXCEPT ![field] = v]
  /\ island_op' = "assign"
  /\ size_ret' = 0
  /\ UNCHANGED <<flowVars, orderVars, loopVars, trackerVars>>

Size ==
  /\ size_ret' = MatchIsland_size(island)
  /\ island_op' = "size"
  /\ UNCHANGED island
  /\ UNCHANGED <<flowVars, orderVars, loopVars, trackerVars>>

NextIsland ==
  \/ Construct0
  \/ \E start \in FrameIdValues, end \in FrameIdValues : Construct2(start, end)
  \/ \E start \in FrameIdValues, end \in FrameIdValues, score \in IslandScores :
        Construct3(start, end, score)
  \/ Clear
  \/ \E field \in {"start_id_", "end_id_", "best_id_"}, v \in FrameIdValues :
        AssignId(field, v)
  \/ \E field \in {"island_score_", "best_score_"}, v \in IslandScores :
        AssignScore(field, v)
  \/ Size

(***************************************************************************)
(* Comparing islands: three islands are drawn, then every comparison       *)
(* among them is evaluated.                                                *)
(***************************************************************************)
DoubleValues == {Num(0), Num(1), Num(2), NaN}

OrderIslands ==
  [start_id_ : {0, 1}, end_id_ : {1, 2}, island_score_ : DoubleValues,
   best_id_ : {0, 1}, best_score_ : {Num(0), Num(3)}]

NoVerdicts == [i \in 1..3 |-> [j \in 1..3 |-> FALSE]]

IdleOrder ==
  /\ islands = <<MatchIsland0, MatchIsland0, MatchIsland0>>
  /\ less = NoVerdicts
  /\ greater = NoVerdicts
  /\ compared = FALSE

InitOrder ==
  /\ islands \in [1..3 -> OrderIslands]
  /\ less = NoVerdicts
  /\ greater = NoVerdicts
  /\ compared = FALSE

Compare ==
  /\ ~compared
  /\ less' = [i \in 1..3 |-> [j \in 1..3 |-> MatchIsland_less(islands[i], islands[j])]]
  /\ greater' = [i \in 1..3 |-> [j \in 1..3 |-> MatchIsland_greater(islands[i], islands[j])]]
  /\ compared' = TRUE
  /\ UNCHANGED islands
  /\ UNCHANGED <<flowVars, islandVars, loopVars, trackerVars>>

NextOrder == Compare

(***************************************************************************)
(* struct LoopResult.  It has no constructor: a default-initialised object *)
(* holds an indeterminate status_, query_id_ and match_id_, and the        *)
(* identity pose gtsam::Pose3() constructs.                                *)
(***************************************************************************)
LOOP_DETECTED == 0
NO_MATCHES == 1
LOW_NSS_FACTOR == 2
LOW_SCORE == 3
NO_GROUPS == 4
FAILED_TEMPORAL_CONSTRAINT == 5
FAILED_GEOM_VERIFICATION == 6
FAILED_POSE_RECOVERY == 7

LCDStatusValues == LOOP_DETECTED..FAILED_POSE_RECOVERY

\* bit patterns an indeterminate status_ may hold: the enumerators and one more
MaxStatusPattern == 8

MaxLoopId == 2

LoopIds == 0..MaxLoopId

IdentityPose == "identity"

RecoveredPoses == {"pose_a", "pose_b"}

PoseValues == {IdentityPose} \cup RecoveredPoses

\* LoopResult::isLoop
isLoopUnlessNoMatches(r) == r.status_ # NO_MATCHES

isLoop(r) == r.status_ = LOOP_DETECTED

InitLoop ==
  /\ result \in [status_ : 0..MaxStatusPattern, query_id_ : LoopIds, match_id_ : LoopIds,
                 relative_pose_ : {IdentityPose}]
  /\ loop_op = "init"
  /\ isLoop_ret = FALSE
  /\ result_before = result
  /\ lcd_query = 0
  /\ lcd_match = 0
  /\ lcd_matches = 0

\* a value-initialised LoopResult nobody touches
IdleLoop ==
  /\ result = [status_ |-> LOOP_DETECTED, query_id_ |-> 0, match_id_ |-> 0,
               relative_pose_ |-> IdentityPose]
  /\ loop_op = "init"
  /\ isLoop_ret = FALSE
  /\ result_before = result
  /\ lcd_query = 0
  /\ lcd_match = 0
  /\ lcd_matches = 0

\* the members are public: any of them may be assigned
AssignStatus(status) ==
  /\ result' = [result EXCEPT !.status_ = status]
  /\ loop_op' = "assign"
  /\ isLoop_ret' = FALSE
  /\ result_before' = result'
  /\ UNCHANGED <<lcd_query, lcd_match, lcd_matches>>
  /\ UNCHANGED <<flowVars, islandVars, orderVars, trackerVars>>

AssignFrameId(field, id) ==
  /\ result' = [result EXCEPT ![field] = id]
  /\ loop_op' = "assign"
  /\ isLoop_ret' = FALSE
  /\ result_before' = result'
  /\ UNCHANGED <<lcd_query, lcd_match, lcd_matches>>
  /\ UNCHANGED <<flowVars, islandVars, orderVars, trackerVars>>

AssignPose(pose) ==
  /\ result' = [result EXCEPT !.relative_pose_ = pose]
  /\ loop_op' = "assign"
  /\ isLoop_ret' = FALSE
  /\ result_before' = result'
  /\ UNCHANGED <<lcd_query, lcd_match, lcd_matches>>
  /\ UNCHANGED <<flowVars, islandVars, orderVars, trackerVars>>

IsLoop ==
  /\ isLoop_ret' = isLoop(result)
  /\ result_before' = result
  /\ loop_op' = "isLoop"
  /\ UNCHANGED <<result, lcd_query, lcd_match, lcd_matches>>
  /\ UNCHANGED <<flowVars, islandVars, orderVars, trackerVars>>

NextLoop ==
  \/ \E status \in LCDStatusValues : AssignStatus(status)
  \/ \E field \in {"query_id_", "match_id_"}, id \in LoopIds : AssignFrameId(field, id)
  \/ \E pose \in PoseValues : AssignPose(pose)
  \/ IsLoop

(***************************************************************************)
(* The detection that fills a LoopResult is not part of the headers; it is *)
(* modelled from the status pipeline of the design description: the stages *)
(* run in enumerator order, the first one that fails is the status, and    *)
(* the relative pose is written only once pose recovery succeeded.         *)
(***************************************************************************)
MaxMatches == 1

StageOutcomes == [LOW_NSS_FACTOR..FAILED_POSE_RECOVERY -> BOOLEAN]

RECURSIVE FirstFailure(_, _)
FirstFailure(passes, stage) ==
  IF stage > FAILED_POSE_RECOVERY THEN LOOP_DETECTED
  ELSE IF ~passes[stage] THEN stage
  ELSE FirstFailure(passes, stage + 1)

TerminalStatus(matches, passes) ==
  IF matches = 0 THEN NO_MATCHES ELSE FirstFailure(passes, LOW_NSS_FACTOR)

detectLoopWritesPoseEarly(query, match, matches, passes, recovered) ==
  [status_ |-> TerminalStatus(matches, passes),
   query_id_ |-> query,
   match_id_ |-> match,
   relative_pose_ |->
     IF TerminalStatus(matches, passes) \in {LOOP_DETECTED, FAILED_POSE_RECOVERY}
     THEN recovered ELSE IdentityPose]

detectLoop(query, match, matches, passes, recovered) ==
  [status_ |-> TerminalStatus(matches, passes),
   query_id_ |-> query,
   match_id_ |-> match,
   relative_pose_ |->
     IF TerminalStatus(matches, passes) = LOOP_DETECTED THEN recovered ELSE IdentityPose]

DetectLoop(query, match, matches, passes, recovered) ==
  /\ result' = detectLoop(query, match, matches, passes, recovered)
  /\ loop_op' = "detectLoop"
  /\ lcd_query' = query
  /\ lcd_match' = match
  /\ lcd_matches' = matches
  /\ isLoop_ret' = FALSE
  /\ result_before' = result'
  /\ UNCHANGED <<flowVars, islandVars, orderVars, trackerVars>>

NextLCD ==
  \/ \E query \in LoopIds, match \in LoopIds, matches \in 0..MaxMatches,
        passes \in StageOutcomes, recovered \in RecoveredPoses :
        DetectLoop(query, match, matches, passes, recovered)
  \/ IsLoop

(***************************************************************************)
(* Tracker::landmark_count_.  The header declares the counter and          *)
(* featureDetection; the bodies are not part of the headers and are        *)
(* modelled from the design description: the constructor sets the counter  *)
(* to 0, and featureDetection gives each new corner the current value as   *)
(* its landmark id and increments the counter.  The counter is a signed    *)
(* int; the model narrows it to IntBits bits.  Incrementing INT_MAX is     *)
(* undefined: the build either wraps to INT_MIN or traps.                  *)
(***************************************************************************)
IntBits == 4

INT_MAX == 2 ^ (IntBits - 1) - 1

INT_MIN == 0 - INT_MAX - 1

MaxNewCorners == 3

\* ++landmark_count_ where it is defined
Increment(count) == IF count = INT_MAX THEN INT_MIN ELSE count + 1

\* ids the corners get, starting from count
RECURSIVE LandmarkIds(_, _)
LandmarkIds(count, n) ==
  IF n = 0 THEN <<>> ELSE <<count>> \o LandmarkIds(Increment(count), n - 1)

\* how many increments run before one overflows (n if none does)
DefinedIncrements(count, n) ==
  IF count >= 0 /\ INT_MAX - count < n THEN INT_MAX - count ELSE n

RECURSIVE IncrementBy(_, _)
IncrementBy(count, n) == IF n = 0 THEN count ELSE IncrementBy(Increment(count), n - 1)

SeqRange(seq) == {seq[i] : i \in 1..Len(seq)}

InitTracker ==
  /\ tracker_proc = "running"
  /\ landmark_count_ = 0
  /\ issued = {}
  /\ tracker_op = "construct"
  /\ count_before = 0
  /\ n_detected = 0
  /\ reused = FALSE

ConstructTracker ==
  /\ tracker_proc' = "running"
  /\ landmark_count_' = 0
  /\ issued' = {}
  /\ tracker_op' = "construct"
  /\ count_before' = 0
  /\ n_detected' = 0
  /\ reused' = FALSE
  /\ UNCHANGED <<flowVars, islandVars, orderVars, loopVars>>

FeatureDetection(n) ==
  /\ tracker_proc = "running"
  /\ tracker_op' = "featureDetection"
  /\ count_before' = landmark_count_
  /\ n_detected' = n
  /\ \/ /\ landmark_count_' = IncrementBy(landmark_count_, n)
        /\ issued' = issued \cup SeqRange(LandmarkIds(landmark_count_, n))
        /\ reused' = \/ SeqRange(LandmarkIds(landmark_count_, n)) \cap issued # {}
                     \/ Cardinality(SeqRange(LandmarkIds(landmark_count_, n))) # n
        /\ UNCHANGED tracker_proc
     \/ /\ DefinedIncrements(landmark_count_, n) < n
        /\ landmark_count_' = INT_MAX
        /\ issued' = issued \cup
             SeqRange(LandmarkIds(landmark_count_,
                                  DefinedIncrements(landmark_count_, n) + 1))
        /\ reused' = (SeqRange(LandmarkIds(landmark_count_,
                         DefinedIncrements(landmark_count_, n) + 1)) \cap issued # {})
        /\ tracker_proc' = "undefined"
  /\ UNCHANGED <<flowVars, islandVars, orderVars, loopVars>>

NextTracker ==
  \/ ConstructTracker
  \/ \E n \in 0..MaxNewCorners : FeatureDetection(n)

(***************************************************************************)
(* Specifications, one per component; the other components stay as         *)
(* constructed.                                                            *)
(***************************************************************************)
vars == <<flowVars, islandVars, orderVars, loopVars, trackerVars>>

Init == InitFlow /\ InitIsland /\ IdleOrder /\ IdleLoop /\ InitTracker

Spec == Init /\ [][NextFlow]_vars

SpecIsland == Init /\ [][NextIsland]_vars

InitCompare == InitFlow /\ InitIsland /\ InitOrder /\ IdleLoop /\ InitTracker

SpecOrder == InitCompare /\ [][NextOrder]_vars

InitResult == InitFlow /\ InitIsland /\ IdleOrder /\ InitLoop /\ InitTracker

SpecLoop == InitResult /\ [][NextLoop]_vars

SpecLCD == InitResult /\ [][NextLCD]_vars

SpecTracker == Init /\ [][NextTracker]_vars

(***************************************************************************)
(* Properties                                                              *)
(***************************************************************************)

\* C1: the static predictor's predictFlow returns true and leaves next_kps
\* with the same elements in the same order as prev_kps, for every prev_kps
\* (the empty one included) and whatever next_kps held before.
C1_StaticPredictFlowCopies ==
  last_op = "predictStatic" =>
    /\ ret = TRUE
    /\ Len(next_kps) = Len(arg_prev)
    /\ \A i \in 1..Len(arg_prev) : next_kps[i] = arg_prev[i]

C1_Witness ==
  /\ last_op = "predictStatic"
  /\ Len(arg_prev) = MaxKps
  /\ arg_prev[1] # arg_prev[2]
  /\ next_kps = arg_prev

\* C2 as stated: with the identity rotation the rotational predictor yields
\* exactly the static predictor's output, for every invertible K.
C2_IdentityRotationEqualsStatic ==
  (last_op = "predictRotational" /\ inter_frame_rotation_ = IdentityMatrix) =>
    /\ ret = TRUE
    /\ next_kps = SillyPredictFlow(arg_prev, <<>>).next_kps

\* C2, amended: with the identity rotation, whenever the single-precision
\* product K * R * K^-1 comes out as exactly the identity matrix, the
\* rotational predictor returns true and next_kps equals prev_kps.
C2_IdentityHomographyEqualsStatic ==
  (/\ last_op = "predictRotational"
   /\ inter_frame_rotation_ = IdentityMatrix
   /\ last_H = IdentityMatrix) =>
    /\ ret = TRUE
    /\ next_kps = SillyPredictFlow(arg_prev, <<>>).next_kps

C2_Witness ==
  /\ last_op = "predictRotational"
  /\ inter_frame_rotation_ = IdentityMatrix
  /\ K_ # IdentityMatrix
  /\ last_H = IdentityMatrix
  /\ Len(arg_prev) = MaxKps
  /\ arg_prev[1] # arg_prev[2]
  /\ next_kps = arg_prev

\* C3: the rotational predictFlow always returns true with one output per
\* input; an input whose homogeneous depth (H * (x, y, 1))[2] is <= 0 comes
\* out unchanged, an input with depth > 0 comes out as the first two
\* coordinates divided by the depth; H is K * R * K^-1.
C3_RotationalNeverFails ==
  last_op = "predictRotational" =>
    /\ ret = TRUE
    /\ last_H = Homography(K_, inter_frame_rotation_, K_inverse_)
    /\ Len(next_kps) = Len(arg_prev)
    /\ \A i \in 1..Len(arg_prev) :
         /\ ~FPos(MatVec(last_H, <<arg_prev[i][1], arg_prev[i][2], One>>)[3])
              => next_kps[i] = arg_prev[i]
         /\ FPos(MatVec(last_H, <<arg_prev[i][1], arg_prev[i][2], One>>)[3])
              => next_kps[i] =
                   <<FDiv(MatVec(last_H, <<arg_prev[i][1], arg_prev[i][2], One>>)[1],
                          MatVec(last_H, <<arg_prev[i][1], arg_prev[i][2], One>>)[3]),
                     FDiv(MatVec(last_H, <<arg_prev[i][1], arg_prev[i][2], One>>)[2],
                          MatVec(last_H, <<arg_prev[i][1], arg_prev[i][2], One>>)[3])>>

C3_Witness ==
  /\ last_op = "predictRotational"
  /\ ret = TRUE
  /\ Len(arg_prev) = MaxKps
  /\ \E i \in 1..Len(arg_prev), j \in 1..Len(arg_prev) :
       /\ MatVec(last_H, <<arg_prev[i][1], arg_prev[i][2], One>>)[3][1] = 1
       /\ MatVec(last_H, <<arg_prev[i][1], arg_prev[i][2], One>>)[3] # Zero
       /\ next_kps[i] = arg_prev[i]
       /\ FPos(MatVec(last_H, <<arg_prev[j][1], arg_prev[j][2], One>>)[3])
       /\ next_kps[j] # arg_prev[j]

\* C4 as stated: every island the constructors, clear() and member
\* assignment can produce has start_id_ <= end_id_, and its size() is
\* end_id_ - start_id_ + 1 without wrapping.
C4_IslandRangeInvariant ==
  /\ island.start_id_ <= island.end_id_
  /\ MatchIsland_size(island) = island.end_id_ - island.start_id_ + 1
  /\ island_op = "size" => size_ret = island.end_id_ - island.start_id_ + 1

\* C4, amended: an island with start_id_ <= end_id_ that does not span the
\* whole FrameId range has size() = end_id_ - start_id_ + 1; a default
\* constructed or cleared island has start_id_ = end_id_ = 0 and size() 1.
\* Nothing makes start_id_ <= end_id_ hold.
C4_SizeOfOrderedIsland ==
  /\ (/\ island.start_id_ <= island.end_id_
      /\ island.end_id_ - island.start_id_ + 1 < FrameIdModulus) =>
       /\ MatchIsland_size(island) = island.end_id_ - island.start_id_ + 1
       /\ island_op = "size" => size_ret = island.end_id_ - island.start_id_ + 1
  /\ island_op \in {"ctor0", "clear"} =>
       /\ island.start_id_ = 0
       /\ island.end_id_ = 0
       /\ MatchIsland_size(island) = 1

C4_Witness ==
  /\ island_op = "size"
  /\ island.start_id_ > 0
  /\ island.start_id_ < island.end_id_
  /\ size_ret = island.end_id_ - island.start_id_ + 1

C6_IsLoopIffLoopDetected ==
  loop_op = "isLoop" =>
    /\ result = result_before
    /\ \A s \in LCDStatusValues :
         result.status_ = s => (isLoop_ret <=> (s = LOOP_DETECTED))

C6_Witness ==
  /\ loop_op = "isLoop"
  /\ isLoop_ret = FALSE
  /\ result.status_ = FAILED_POSE_RECOVERY
  /\ result.relative_pose_ # IdentityPose
  /\ result.query_id_ # result.match_id_

C8_LandmarkCountMonotonic ==
  tracker_op = "featureDetection" =>
    /\ landmark_count_ >= count_before
    /\ landmark_count_ = count_before + n_detected
    /\ ~reused

\* C9 as stated: a predictFlow uses the rotation of the latest
\* updateInterFrameRotation, leaves the rotation, K_ and K_inverse_ alone,
\* and gives the same next_kps when repeated on the same prev_kps.
C9_LastRotationWins ==
  last_op = "predictRotational" =>
    /\ last_H = Homography(K_, requested_rotation, K_inverse_)
    /\ pre_predict = <<inter_frame_rotation_, K_, K_inverse_>>
    /\ repeat_of # <<>> => repeat_of[1] = next_kps

\* C10: the factory builds the static predictor for kStatic, a rotational
\* predictor holding the given intrinsics and their inverse for
\* kRotational, and ends the process for every other type value.
C10_FactoryByType ==
  last_op = "make" =>
    /\ arg_type = kStatic => (proc = "running" /\ predictor = "static")
    /\ arg_type = kRotational =>
         /\ proc = "running"
         /\ predictor = "rotational"
         /\ K_ = arg_K
         /\ K_inverse_ = inv(arg_K)
         /\ inter_frame_rotation_ = IdentityMatrix
    /\ arg_type \notin {kStatic, kRotational} =>
         (proc = "fatal" /\ predictor = "none")

C10_Witness ==
  /\ last_op = "make"
  /\ arg_type \notin {kStatic, kRotational}
  /\ proc = "fatal"
  /\ predictor = "none"

==========================================================================
